---- MODULE Spec2Model ----
(***************************************************************************)
(* The cosmic widget of the resume page: the host page's controls          *)
(* (app/page.tsx) and the CosmicASCIIScene component                       *)
(* (components/cosmic-ascii-scene.tsx): the auto-play scene machine, the   *)
(* per-frame choice of the entities to draw, and getStyleVariant.          *)
(*                                                                         *)
(* Times are milliseconds.  transitionProgress is kept as the numerator    *)
(* of transitionElapsed / transitionDuration, so progress 0.5 is 500 and   *)
(* the interval [0, 1] is 0..transitionDuration; the canvas alpha of a     *)
(* layer is kept in the same unit.  Catalog indices are the code's         *)
(* 0-based indices; a catalog is the sequence of its entities' durations.  *)
(*                                                                         *)
(* The component's callbacks are closures over the state of the render     *)
(* that created them (the effects' dependency arrays, lines 221 and        *)
(* 323-333).  `closure` is that captured state; the state variables hold   *)
(* the values most recently passed to the setters.  A state change made    *)
(* by a timer callback reaches the closures when React re-runs the         *)
(* effects (EffectsRerun); a change made by a click is flushed with its    *)
(* handler.                                                                *)
(***************************************************************************)
EXTENDS Integers, Sequences, FiniteSets, TLC

VARIABLES
    catalog,              \* COSMIC_ENTITIES: the entities' durations, in catalog order
    now,                  \* the last value read from Date.now()
    currentEntityIndex,   \* useState(0)
    nextEntityIndex,      \* useState(1)
    transitionProgress,   \* useState(0), numerator over transitionDuration
    isTransitioning,      \* useState(false)
    lastSceneChange,      \* lastSceneChangeRef.current
    closure,              \* state captured by checkSceneChange and render
    isInteractiveMode,    \* host page state, passed as a prop
    manualScene,          \* host page state, passed as a prop
    activeEntityIndex,    \* render(): the index computed by the last call
    frame,                \* render(): the layers drawn by the last call
    phase,                \* "mounted", or "crashed" once an effect has thrown
    animationStyle,       \* getStyleVariant input: the style label's char codes
    entityType,           \* getStyleVariant input: the type tag
    variant,              \* getStyleVariant output: <<>> or <<the record>>
    weather,              \* useState(null): <<>> or <<the record passed to setWeather>>
    weatherInterval,      \* the weather poll interval is scheduled
    weatherInFlight,      \* fetches issued and not yet settled
    lastFetch,            \* how the fetch that settled last ended, "none" before any
    fetchesIssued,        \* calls of fetch() so far
    weatherTicks,         \* ticks of the weather interval so far
    currentTime,          \* useState(new Date()): the clock second, modulo 2
    timeInterval,         \* the clock interval is scheduled
    sceneInterval,        \* number of scene-advance intervals scheduled
    prefersReducedMotion, \* mediaQuery.matches
    shouldAnimate,        \* useState(true)
    staticTime,           \* staticTimeRef.current
    renderTime,           \* render(): the time value `now` of the last call
    animationRefPending,  \* the frame whose id animationRef.current holds is pending
    orphanFrames,         \* pending frames whose id animationRef.current no longer holds
    canvasSize,           \* <<canvas.width, canvas.height>>
    canvasDrawn,          \* the canvas holds a frame drawn since it was last cleared
    weatherCode,          \* getWeatherText input
    weatherText,          \* getWeatherText output: <<>> or <<the label>>
    pixel,                \* applyEnhancedDithering input: <<data[i], data[i+1], data[i+2]>>
    pixelAt,              \* applyEnhancedDithering input: the pixel's <<x, y>>
    palette,              \* applyEnhancedDithering input: hexToRgb of secondary and accent
    dithered,             \* applyEnhancedDithering output: <<>> or <<the pixel's record>>
    renderer,             \* the glyph renderer invoked: the entity's type tag
    drawTime,             \* the renderer's time argument
    drawVariant,          \* the renderer's variant argument
    draws,                \* the draw commands of each invocation so far
    hashedValue,          \* hashString input: the string's char codes
    hashResult,           \* hashString output: <<>> or <<the value returned>>
    particles,            \* particlesRef.current: the particles' creation numbers
    particlesCreated,     \* calls of createParticle so far
    probeId,              \* creation number of the particle whose fields are followed
    probe,                \* <<>> or <<the followed particle>>, while it is in the pool
    lastRender,           \* render(): what the last call did
    renders               \* calls of render() so far

\* written by the effects when they run
effectVars == <<weatherInterval, timeInterval, sceneInterval, staticTime,
                renderTime, animationRefPending, orphanFrames, canvasDrawn>>

\* written by the environment's events and the callbacks they reach
ambientVars == <<weather, weatherInFlight, lastFetch, fetchesIssued, weatherTicks,
                 currentTime, prefersReducedMotion, shouldAnimate, canvasSize>>

playbackVars == <<currentEntityIndex, nextEntityIndex, transitionProgress,
                  isTransitioning, lastSceneChange>>

variantVars == <<animationStyle, entityType, variant>>

\* inputs and outputs of the functions that are called on their own
weatherTextVars == <<weatherCode, weatherText>>

ditherVars == <<pixel, pixelAt, palette, dithered>>

drawVars == <<renderer, drawTime, drawVariant, draws>>

hashVars == <<hashedValue, hashResult>>

renderVars == <<particles, particlesCreated, probeId, probe, lastRender, renders>>

callVars == <<variantVars, weatherTextVars, ditherVars, drawVars, hashVars,
              renderVars>>

vars == <<catalog, now, playbackVars, closure, isInteractiveMode,
          manualScene, activeEntityIndex, frame, phase,
          callVars, effectVars, ambientVars>>

----------------------------------------------------------------------------
(* Bounds of the model. *)

MaxEntities == 3        \* longest catalog explored
MaxNow == 8000          \* ticks stop once the clock has reached this time
ScenarioMaxNow == 3200  \* end of the end-to-end scenario
MaxManual == 4          \* an arbitrary host passes manualScene in -MaxManual..MaxManual

Durations == {1000, 2000}
Delays == {0, 500, 1000, 3500}

RECURSIVE SeqsUpTo(_, _)
SeqsUpTo(S, n) ==
    IF n = 0 THEN {<<>>}
    ELSE LET shorter == SeqsUpTo(S, n - 1)
         IN  shorter \cup {Append(s, x) : s \in {t \in shorter : Len(t) = n - 1}, x \in S}

Catalogs == SeqsUpTo(Durations, MaxEntities) \ {<<>>}

ScenarioCatalog == <<2000, 3000, 4000>>

----------------------------------------------------------------------------
(* The scene machine: checkSceneChange. *)

transitionDuration == 1000

TickMs == 16

EntityCount(cat) == Len(cat)

\* COSMIC_ENTITIES[i] is undefined outside 0..length-1
EntityDefined(cat, i) == i \in 0 .. (Len(cat) - 1)

EntityDuration(cat, i) == cat[i + 1]

\* JavaScript's %: the result takes the sign of the dividend
JsRem(a, n) == IF a >= 0 THEN a % n ELSE -((-a) % n)

Playback(cur, nxt, prog, trans, last) ==
    [currentEntityIndex |-> cur, nextEntityIndex |-> nxt,
     transitionProgress |-> prog, isTransitioning |-> trans,
     lastSceneChange |-> last]

\* variant of SuccessorIndex that does not wrap at the end of the catalog
SuccessorNoWrap(i, n) == i + 1

SuccessorIndex(i, n) == JsRem(i + 1, n)

\* variant of CompleteTransition that takes the new next index from the
\* old current index
CompleteTransitionFromCurrent(pb, cl, t, cat) ==
    Playback(cl.nextEntityIndex,
             SuccessorIndex(cl.currentEntityIndex, EntityCount(cat)),
             0, FALSE, t)

CompleteTransition(pb, cl, t, cat) ==
    Playback(cl.nextEntityIndex,
             SuccessorIndex(cl.nextEntityIndex, EntityCount(cat)),
             0, FALSE, t)

StartTransition(pb) == [pb EXCEPT !.isTransitioning = TRUE]

\* variant of ProgressAt that counts the cross-fade window down
ProgressCountdown(elapsed, duration) == duration + transitionDuration - elapsed

ProgressAt(elapsed, duration) == elapsed - duration

\* variant of UpdateTransitionProgress that measures from the last scene change
UpdateProgressFromElapsed(pb, elapsed, duration) ==
    [pb EXCEPT !.transitionProgress = elapsed]

UpdateTransitionProgress(pb, elapsed, duration) ==
    [pb EXCEPT !.transitionProgress = ProgressAt(elapsed, duration)]

\* variant of CheckSceneChangeAt that tests for the start of a transition
\* before it tests for the commit
CheckSceneChangeStartFirst(pb, cl, t, cat) ==
    IF ~EntityDefined(cat, cl.currentEntityIndex)
    THEN pb
    ELSE LET elapsed == t - pb.lastSceneChange
             duration == EntityDuration(cat, cl.currentEntityIndex)
         IN  IF elapsed >= duration /\ ~cl.isTransitioning
             THEN StartTransition(pb)
             ELSE IF elapsed >= duration + transitionDuration
             THEN CompleteTransition(pb, cl, t, cat)
             ELSE IF cl.isTransitioning
             THEN UpdateTransitionProgress(pb, elapsed, duration)
             ELSE pb

\* variant of CheckSceneChangeAt that takes the time since the page loaded
\* for the time since the last scene change
CheckSceneChangeSinceLoad(pb, cl, t, cat) ==
    IF ~EntityDefined(cat, cl.currentEntityIndex)
    THEN pb
    ELSE LET elapsed == t
             duration == EntityDuration(cat, cl.currentEntityIndex)
         IN  IF elapsed >= duration + transitionDuration
             THEN CompleteTransition(pb, cl, t, cat)
             ELSE IF elapsed >= duration /\ ~cl.isTransitioning
             THEN StartTransition(pb)
             ELSE IF cl.isTransitioning
             THEN UpdateTransitionProgress(pb, elapsed, duration)
             ELSE pb

\* One call of checkSceneChange at time t: pb is the state the setters
\* write, cl the state the callback captured.
CheckSceneChangeAt(pb, cl, t, cat) ==
    IF ~EntityDefined(cat, cl.currentEntityIndex)
    THEN pb     \* currentEntity.duration throws; nothing is set
    ELSE LET elapsed == t - pb.lastSceneChange
             duration == EntityDuration(cat, cl.currentEntityIndex)
         IN  IF elapsed >= duration + transitionDuration
             THEN CompleteTransition(pb, cl, t, cat)
             ELSE IF elapsed >= duration /\ ~cl.isTransitioning
             THEN StartTransition(pb)
             ELSE IF cl.isTransitioning
             THEN UpdateTransitionProgress(pb, elapsed, duration)
             ELSE pb

\* The scene-advance effect installs its interval only in auto-play mode.
\* variant of SceneIntervalActive without the early return
SceneIntervalAlways(interactive) == TRUE

SceneIntervalActive(interactive) == ~interactive

----------------------------------------------------------------------------
(* render(): which entities a frame draws, and at which alpha. *)

FullAlpha == transitionDuration

Layer(i, a) == [entity |-> i, alpha |-> a]

ActiveEntityIndex(cl, interactive, manual, cat) ==
    IF interactive THEN JsRem(manual, EntityCount(cat)) ELSE cl.currentEntityIndex

CrossFading(cl, interactive) == cl.isTransitioning /\ ~interactive

\* FALSE when render() dereferences an undefined entity and throws
RenderCompletes(cl, interactive, manual, cat) ==
    /\ EntityDefined(cat, ActiveEntityIndex(cl, interactive, manual, cat))
    /\ CrossFading(cl, interactive) =>
          /\ EntityDefined(cat, cl.currentEntityIndex)
          /\ EntityDefined(cat, cl.nextEntityIndex)

RenderLayers(cl, interactive, manual, cat) ==
    IF ~RenderCompletes(cl, interactive, manual, cat) THEN <<>>
    ELSE IF CrossFading(cl, interactive)
    THEN <<Layer(cl.currentEntityIndex, FullAlpha - cl.transitionProgress),
           Layer(cl.nextEntityIndex, cl.transitionProgress)>>
    ELSE <<Layer(ActiveEntityIndex(cl, interactive, manual, cat), FullAlpha)>>

----------------------------------------------------------------------------
(* The component's state and its effects. *)

StateNow ==
    [currentEntityIndex |-> currentEntityIndex,
     nextEntityIndex |-> nextEntityIndex,
     transitionProgress |-> transitionProgress,
     isTransitioning |-> isTransitioning,
     shouldAnimate |-> shouldAnimate,
     currentTime |-> currentTime,
     weather |-> weather]

PlaybackNow ==
    Playback(currentEntityIndex, nextEntityIndex, transitionProgress,
             isTransitioning, lastSceneChange)

\* a setter has been called with a new value and the effects have not re-run
EffectsPending == closure # StateNow

\* variant of ClearInterval for a cleanup that leaves the interval running
KeepInterval(scheduled) == scheduled

\* clearInterval on the handle an effect holds
ClearInterval(scheduled) == IF scheduled > 0 THEN scheduled - 1 ELSE 0

\* variant of CancelFrame for a cleanup without cancelAnimationFrame
KeepFrame(pending) == pending

\* cancelAnimationFrame(animationRef.current): whether the frame that
\* animationRef.current names is pending afterwards
CancelFrame(pending) == FALSE

\* One call of render() at time t by a callback that captured cl, with
\* refPending telling whether the frame named by animationRef.current is
\* pending when it is called: the time value it uses, the writes to
\* staticTimeRef and animationRef, and whether it gets to draw the frame.
Rendered(cl, interactive, manual, t, refPending, orphans) ==
    LET readsTime == EntityDefined(catalog, ActiveEntityIndex(cl, interactive, manual, catalog))
        completes == RenderCompletes(cl, interactive, manual, catalog)
        time == IF cl.shouldAnimate THEN t ELSE staticTime
        requests == completes /\ cl.shouldAnimate
    IN  [renderTime |-> IF readsTime THEN time ELSE renderTime,
         staticTime |-> IF readsTime /\ ~cl.shouldAnimate THEN time ELSE staticTime,
         animationRefPending |-> requests \/ refPending,
         orphanFrames |-> orphans + (IF requests /\ refPending THEN 1 ELSE 0),
         canvasDrawn |-> completes]

SetRendered(r) ==
    /\ renderTime' = r.renderTime
    /\ staticTime' = r.staticTime
    /\ animationRefPending' = r.animationRefPending
    /\ orphanFrames' = r.orphanFrames
    /\ canvasDrawn' = r.canvasDrawn

\* The effects run for the state st and the props: the cleanups of the
\* previous run clear the scene-advance interval and cancel the pending
\* frame, the closures capture st, the interval is set again in auto-play
\* mode and the render effect calls render() once.  When render() throws,
\* React unmounts the component and the cleanups of the other effects run.
RunEffects(st, interactive, manual) ==
    LET completes == RenderCompletes(st, interactive, manual, catalog)
    IN  /\ closure' = st
        /\ activeEntityIndex' = ActiveEntityIndex(st, interactive, manual, catalog)
        /\ frame' = RenderLayers(st, interactive, manual, catalog)
        /\ phase' = IF completes THEN "mounted" ELSE "crashed"
        /\ sceneInterval' =
              IF completes /\ SceneIntervalActive(interactive)
              THEN ClearInterval(sceneInterval) + 1
              ELSE ClearInterval(sceneInterval)
        /\ weatherInterval' = (completes /\ weatherInterval)
        /\ timeInterval' = (completes /\ timeInterval)
        /\ SetRendered(Rendered(st, interactive, manual, now,
                                CancelFrame(animationRefPending), orphanFrames))

SetPlayback(pb) ==
    /\ currentEntityIndex' = pb.currentEntityIndex
    /\ nextEntityIndex' = pb.nextEntityIndex
    /\ transitionProgress' = pb.transitionProgress
    /\ isTransitioning' = pb.isTransitioning
    /\ lastSceneChange' = pb.lastSceneChange

NoVariantCall ==
    /\ animationStyle = <<>>
    /\ entityType = ""
    /\ variant = <<>>

NoWeatherTextCall ==
    /\ weatherCode = 0
    /\ weatherText = <<>>

NoDitherCall ==
    /\ pixel = <<0, 0, 0>>
    /\ pixelAt = <<0, 0>>
    /\ palette = [tint |-> <<0, 0, 0>>, accent |-> <<0, 0, 0>>]
    /\ dithered = <<>>

NoDrawCall ==
    /\ renderer = ""
    /\ drawTime = 0
    /\ drawVariant = <<>>
    /\ draws = <<>>

\* hashString has not been called on its own
NoHashCall ==
    /\ hashedValue = <<>>
    /\ hashResult = <<>>

NoRender ==
    [calls |-> <<>>, overlay |-> FALSE, dithered |-> FALSE, threw |-> FALSE]

\* the particle pool is not followed
NoRenderCall ==
    /\ particles = <<>>
    /\ particlesCreated = 0
    /\ probeId = 0
    /\ probe = <<>>
    /\ lastRender = NoRender
    /\ renders = 0

\* none of the functions that are called on their own has been called
NoCalls ==
    /\ NoVariantCall
    /\ NoWeatherTextCall
    /\ NoDitherCall
    /\ NoDrawCall
    /\ NoHashCall
    /\ NoRenderCall

\* The first render and the first run of the effects, at time t.
MountAt(cat, t, interactive, manual) ==
    /\ catalog = cat
    /\ now = t
    /\ currentEntityIndex = 0
    /\ nextEntityIndex = 1
    /\ transitionProgress = 0
    /\ isTransitioning = FALSE
    /\ lastSceneChange = t
    /\ closure = [currentEntityIndex |-> 0, nextEntityIndex |-> 1,
                  transitionProgress |-> 0, isTransitioning |-> FALSE,
                  shouldAnimate |-> TRUE, currentTime |-> 0, weather |-> <<>>]
    /\ isInteractiveMode = interactive
    /\ manualScene = manual
    /\ activeEntityIndex = ActiveEntityIndex(closure, interactive, manual, cat)
    /\ frame = RenderLayers(closure, interactive, manual, cat)
    /\ LET completes == RenderCompletes(closure, interactive, manual, cat)
       IN  /\ phase = IF completes THEN "mounted" ELSE "crashed"
           /\ sceneInterval = IF completes /\ SceneIntervalActive(interactive) THEN 1 ELSE 0
           /\ weatherInterval = completes
           /\ timeInterval = completes
           /\ animationRefPending = completes
           /\ canvasDrawn = completes
    /\ staticTime = t
    /\ renderTime = t
    /\ orphanFrames = 0

\* Math.max(320, clientWidth), Math.max(240, clientHeight)
CanvasSizeFor(parent) ==
    <<IF parent[1] > 320 THEN parent[1] ELSE 320,
      IF parent[2] > 240 THEN parent[2] ELSE 240>>

\* What the mount leaves outside the playback state: the first fetch is
\* in flight, the media query has been read, the canvas has its size.
MountAmbient(reduced, parent) ==
    /\ weather = <<>>
    /\ weatherInFlight = 1
    /\ lastFetch = "none"
    /\ fetchesIssued = 1
    /\ weatherTicks = 0
    /\ currentTime = 0
    /\ prefersReducedMotion = reduced
    /\ shouldAnimate = ~reduced
    /\ canvasSize = CanvasSizeFor(parent)

DesktopParent == <<800, 600>>

Init ==
    /\ \E cat \in Catalogs : MountAt(cat, 0, FALSE, 0)
    /\ MountAmbient(FALSE, DesktopParent)
    /\ NoCalls

\* A tick of the scene-advance interval, d ms after the last clock reading.
\* The effects re-run within the same millisecond-scale instant as the
\* setter calls that caused them, so no time passes while they are pending;
\* a tick of the old interval may still run before they do.
CheckSceneChange(d) ==
    /\ phase = "mounted"
    /\ sceneInterval > 0
    /\ EffectsPending => d = 0
    /\ now + d <= MaxNow
    /\ now' = now + d
    /\ SetPlayback(CheckSceneChangeAt(PlaybackNow, closure, now + d, catalog))
    /\ UNCHANGED <<catalog, closure, isInteractiveMode, manualScene,
                   activeEntityIndex, frame, phase>>
    /\ UNCHANGED <<callVars, effectVars, ambientVars>>

Tick == \E d \in Delays : CheckSceneChange(d)

\* React re-runs the effects whose dependencies changed.
EffectsRerun ==
    /\ phase = "mounted"
    /\ EffectsPending
    /\ RunEffects(StateNow, isInteractiveMode, manualScene)
    /\ UNCHANGED <<catalog, now, isInteractiveMode, manualScene>>
    /\ UNCHANGED playbackVars
    /\ UNCHANGED <<callVars, ambientVars>>

----------------------------------------------------------------------------
(* The host page: ResumePage. *)

totalEntities == EntityCount(catalog)

\* variant of PreviousScene that does not add the catalog length
PreviousSceneNoWrap(m, n) == JsRem(m - 1, n)

PreviousScene(m, n) == JsRem(m - 1 + n, n)

FollowingScene(m, n) == JsRem(m + 1, n)

ToggleMode ==
    /\ phase = "mounted"
    /\ isInteractiveMode' = ~isInteractiveMode
    /\ RunEffects(StateNow, ~isInteractiveMode, manualScene)
    /\ UNCHANGED <<catalog, now, manualScene>>
    /\ UNCHANGED playbackVars
    /\ UNCHANGED <<callVars, ambientVars>>

PressPrevious ==
    /\ phase = "mounted"
    /\ isInteractiveMode
    /\ manualScene' = PreviousScene(manualScene, totalEntities)
    /\ RunEffects(StateNow, isInteractiveMode, manualScene')
    /\ UNCHANGED <<catalog, now, isInteractiveMode>>
    /\ UNCHANGED playbackVars
    /\ UNCHANGED <<callVars, ambientVars>>

PressNext ==
    /\ phase = "mounted"
    /\ isInteractiveMode
    /\ manualScene' = FollowingScene(manualScene, totalEntities)
    /\ RunEffects(StateNow, isInteractiveMode, manualScene')
    /\ UNCHANGED <<catalog, now, isInteractiveMode>>
    /\ UNCHANGED playbackVars
    /\ UNCHANGED <<callVars, ambientVars>>

Next == Tick \/ EffectsRerun \/ ToggleMode \/ PressPrevious \/ PressNext

Spec == Init /\ [][Next]_vars

----------------------------------------------------------------------------
(* The end-to-end scenario: the catalog <<2000, 3000, 4000>>, mounted at   *)
(* t = 0 in auto-play mode, the interval ticking every TickMs and the      *)
(* effects re-running before the next tick.                                *)

InitScenario ==
    /\ MountAt(ScenarioCatalog, 0, FALSE, 0)
    /\ MountAmbient(FALSE, DesktopParent)
    /\ NoCalls

ScenarioTick ==
    /\ ~EffectsPending
    /\ now + TickMs <= ScenarioMaxNow
    /\ CheckSceneChange(TickMs)

NextScenario == ScenarioTick \/ EffectsRerun

SpecScenario == InitScenario /\ [][NextScenario]_vars

----------------------------------------------------------------------------
(* Auto-play left to run without end.  checkSceneChange uses the clock     *)
(* only through the difference now - lastSceneChangeRef.current, so this   *)
(* specification measures the clock from the last scene change: a commit   *)
(* makes its own time the origin.                                          *)

AutoPlayTick(d) ==
    /\ phase = "mounted"
    /\ sceneInterval > 0
    /\ EffectsPending => d = 0
    /\ LET pb == CheckSceneChangeAt(PlaybackNow, closure, now + d, catalog)
       IN  /\ now' = now + d - pb.lastSceneChange
           /\ SetPlayback([pb EXCEPT !.lastSceneChange = 0])
    /\ UNCHANGED <<catalog, closure, isInteractiveMode, manualScene,
                   activeEntityIndex, frame, phase>>
    /\ UNCHANGED <<callVars, effectVars, ambientVars>>

\* a tick that finds the clock where the last one left it
RepeatedTick == AutoPlayTick(0)

\* a tick after time has passed
AdvancingTick == \E d \in Delays \ {0} : AutoPlayTick(d)

NextAutoPlay == RepeatedTick \/ AdvancingTick \/ EffectsRerun

\* The interval keeps firing while it is scheduled, wall time advances
\* between its ticks, and React re-runs the effects of a state change.
SpecAutoPlayFair ==
    /\ Init
    /\ [][NextAutoPlay]_vars
    /\ WF_vars(AdvancingTick)
    /\ WF_vars(EffectsRerun)

----------------------------------------------------------------------------
(* The component under an arbitrary host: any props at mount, and          *)
(* manualScene set to any integer of the bounded range.                    *)

ManualInputs == (0 - MaxManual) .. MaxManual

InitComponent ==
    /\ \E cat \in Catalogs, interactive \in BOOLEAN, m \in ManualInputs :
          MountAt(cat, 0, interactive, m)
    /\ MountAmbient(FALSE, DesktopParent)
    /\ NoCalls

HostSetsManualScene ==
    /\ phase = "mounted"
    /\ \E m \in ManualInputs : manualScene' = m
    /\ RunEffects(StateNow, isInteractiveMode, manualScene')
    /\ UNCHANGED <<catalog, now, isInteractiveMode>>
    /\ UNCHANGED playbackVars
    /\ UNCHANGED <<callVars, ambientVars>>

NextComponent == Tick \/ EffectsRerun \/ ToggleMode \/ HostSetsManualScene

SpecComponent == InitComponent /\ [][NextComponent]_vars

----------------------------------------------------------------------------
(* The overlay's weather line: getWeatherText and drawEnhancedASCIIOverlay. *)

MaxWeatherCode == 110   \* getWeatherText is called with -MaxWeatherCode..MaxWeatherCode

WeatherCodes == (0 - MaxWeatherCode) .. MaxWeatherCode

\* variant of getWeatherText whose last range starts after 80
getWeatherTextLateStorm(code) ==
    IF code = 0 THEN "CLEAR"
    ELSE IF code >= 1 /\ code <= 3 THEN "CLOUDY"
    ELSE IF code >= 45 /\ code <= 48 THEN "FOGGY"
    ELSE IF code >= 51 /\ code <= 67 THEN "RAINY"
    ELSE IF code >= 71 /\ code <= 77 THEN "SNOWY"
    ELSE IF code > 80 /\ code <= 99 THEN "STORMY"
    ELSE "UNKNOWN"

getWeatherText(code) ==
    IF code = 0 THEN "CLEAR"
    ELSE IF code >= 1 /\ code <= 3 THEN "CLOUDY"
    ELSE IF code >= 45 /\ code <= 48 THEN "FOGGY"
    ELSE IF code >= 51 /\ code <= 67 THEN "RAINY"
    ELSE IF code >= 71 /\ code <= 77 THEN "SNOWY"
    ELSE IF code >= 80 /\ code <= 99 THEN "STORMY"
    ELSE "UNKNOWN"

\* The weather line of the overlay for the weather state w: <<>> when
\* nothing is drawn, else <<label, temperature field>>.  An undefined
\* weatherCode fails every comparison of getWeatherText.
OverlayWeatherText(w) ==
    IF w = <<>> THEN <<>>
    ELSE <<IF w[1].weatherCode = <<>> THEN "UNKNOWN"
           ELSE getWeatherText(w[1].weatherCode[1]),
           w[1].temperature>>

CallGetWeatherText ==
    /\ weatherText = <<>>
    /\ weatherText' = <<getWeatherText(weatherCode)>>
    /\ UNCHANGED <<catalog, now, closure, isInteractiveMode, manualScene,
                   activeEntityIndex, frame, phase, weatherCode>>
    /\ UNCHANGED <<playbackVars, hashVars, renderVars, variantVars, ditherVars, drawVars,
                   effectVars, ambientVars>>

InitWeatherText ==
    /\ MountAt(ScenarioCatalog, 0, FALSE, 0)
    /\ MountAmbient(FALSE, DesktopParent)
    /\ NoVariantCall
    /\ NoDitherCall
    /\ NoDrawCall
    /\ NoHashCall
    /\ NoRenderCall
    /\ weatherCode \in WeatherCodes
    /\ weatherText = <<>>

NextWeatherText == CallGetWeatherText

SpecWeatherText == InitWeatherText /\ [][NextWeatherText]_vars

----------------------------------------------------------------------------
(* applyEnhancedDithering, for one pixel.                                  *)
(* The values the code computes are kept exactly, as numerators over       *)
(* DitherDen: gray is (299 R + 587 G + 114 B) / 1000, and the tinted value *)
(* 0.7 d + 0.2 t + 0.1 a (gray / 255) is                                   *)
(* (7 d * 255000 + 2 t * 255000 + a * (299 R + 587 G + 114 B)) / DitherDen. *)

MaxCoord == 3           \* pixel coordinates explored: 0..MaxCoord

ChannelLevels == {0, 128, 255}

PaletteColours == {<<0, 0, 0>>, <<255, 255, 255>>, <<255, 0, 128>>}

DitherDen == 10 * 255 * 1000

ditherMatrix ==
    <<<<0, 8, 2, 10>>,
      <<12, 4, 14, 6>>,
      <<3, 11, 1, 9>>,
      <<15, 7, 13, 5>>>>

\* ditherMatrix[y % 4][x % 4]
MatrixAt(x, y) == ditherMatrix[(y % 4) + 1][(x % 4) + 1]

\* 1000 * gray
Gray1000(px) == 299 * px[1] + 587 * px[2] + 114 * px[3]

\* The branches the test gray > threshold can take, threshold being
\* (m / 16) * 255.  The code compares floating-point values; when the two
\* are equal as exact numbers, either branch is taken as possible.
DitherBranches(px, m) ==
    IF 16 * Gray1000(px) > 255000 * m THEN {"tint"}
    ELSE IF 16 * Gray1000(px) < 255000 * m \/ Gray1000(px) = 0 THEN {"dark"}
    ELSE {"tint", "dark"}

\* variant of TintedChannel that adds the tint to the undamped channel and
\* does not cap the sum
TintedChannelAdditive(d, t, a, gray1000) ==
    10 * d * 255000 + 2 * t * 255000 + a * gray1000

\* Math.min(255, d * 0.7 + t * 0.2 + a * 0.1 * tintStrength)
TintedChannel(d, t, a, gray1000) ==
    LET sum == 7 * d * 255000 + 2 * t * 255000 + a * gray1000
    IN  IF sum < 255 * DitherDen THEN sum ELSE 255 * DitherDen

\* d * 0.15
DarkChannel(d) == 15 * d * 25500

\* The store into the Uint8ClampedArray of the image data: the value is
\* rounded to the nearest integer, halves to the even one, and clamped.
StoreClamped(num) ==
    LET q == num \div DitherDen
        r == num % DitherDen
        rounded == IF 2 * r > DitherDen THEN q + 1
                   ELSE IF 2 * r < DitherDen THEN q
                   ELSE IF q % 2 = 0 THEN q ELSE q + 1
    IN  IF rounded < 0 THEN 0 ELSE IF rounded > 255 THEN 255 ELSE rounded

\* the three values assigned to the pixel's channels in the given branch
DitherAssigned(px, pal, branch) ==
    [c \in 1 .. 3 |->
        IF branch = "tint"
        THEN TintedChannel(px[c], pal.tint[c], pal.accent[c], Gray1000(px))
        ELSE DarkChannel(px[c])]

DitherPixel(px, pal, branch) ==
    LET assigned == DitherAssigned(px, pal, branch)
    IN  [branch |-> branch,
         assigned |-> assigned,
         stored |-> [c \in 1 .. 3 |-> StoreClamped(assigned[c])]]

CallApplyEnhancedDithering ==
    /\ dithered = <<>>
    /\ \E branch \in DitherBranches(pixel, MatrixAt(pixelAt[1], pixelAt[2])) :
          dithered' = <<DitherPixel(pixel, palette, branch)>>
    /\ UNCHANGED <<catalog, now, closure, isInteractiveMode, manualScene,
                   activeEntityIndex, frame, phase, pixel, pixelAt, palette>>
    /\ UNCHANGED <<playbackVars, hashVars, renderVars, variantVars, weatherTextVars, drawVars,
                   effectVars, ambientVars>>

InitDither ==
    /\ MountAt(ScenarioCatalog, 0, FALSE, 0)
    /\ MountAmbient(FALSE, DesktopParent)
    /\ NoVariantCall
    /\ NoWeatherTextCall
    /\ NoDrawCall
    /\ NoHashCall
    /\ NoRenderCall
    /\ pixel \in ChannelLevels \X ChannelLevels \X ChannelLevels
    /\ pixelAt \in (0 .. MaxCoord) \X (0 .. MaxCoord)
    /\ palette \in [tint : PaletteColours, accent : PaletteColours]
    /\ dithered = <<>>

NextDither == CallApplyEnhancedDithering

SpecDither == InitDither /\ [][NextDither]_vars

----------------------------------------------------------------------------
(* The widget's life: the weather poll, the clock, the reduced-motion      *)
(* preference, the frame loop, resizes and the unmount.                    *)

WidgetMaxNow == 2500    \* the clock of the life-cycle specification stops here
MaxInFlight == 2        \* weather fetches in flight at the same time
MaxFetches == 4         \* the weather interval stops ticking after this many fetches

WidgetCatalogs == {<<1000>>, <<1000, 2000>>}

WidgetDelays == {0, 500, 1000}

ParentSizes == {<<300, 200>>, <<800, 600>>}

\* what a fetch can end with: the request fails, the body has no `current`
\* object, `current` lacks the three fields, or the fields are there
FetchOutcomes ==
    {[kind |-> "networkError"], [kind |-> "noCurrent"], [kind |-> "missingFields"]}
    \cup {[kind |-> "ok", temperature |-> 31, weatherCode |-> c] : c \in {0, 61}}

\* the fetch throws inside the try block
FetchThrows(outcome) == outcome.kind \in {"networkError", "noCurrent"}

\* The argument of setWeather.  A field is <<v>> for the number v and <<>>
\* for what a missing field gives: Math.round(undefined) is NaN and
\* data.current.weather_code is undefined.
WeatherFrom(outcome) ==
    IF outcome.kind = "ok"
    THEN [temperature |-> <<outcome.temperature>>,
          weatherCode |-> <<outcome.weatherCode>>, isDay |-> TRUE]
    ELSE [temperature |-> <<>>, weatherCode |-> <<>>, isDay |-> FALSE]

\* A tick of the weather interval: fetchWeather up to the await.
WeatherPoll ==
    /\ phase = "mounted"
    /\ weatherInterval
    /\ weatherInFlight < MaxInFlight
    /\ fetchesIssued < MaxFetches
    /\ weatherTicks' = weatherTicks + 1
    /\ fetchesIssued' = fetchesIssued + 1
    /\ weatherInFlight' = weatherInFlight + 1
    /\ UNCHANGED <<catalog, now, closure, isInteractiveMode, manualScene,
                   activeEntityIndex, frame, phase>>
    /\ UNCHANGED <<weather, lastFetch, currentTime, prefersReducedMotion,
                   shouldAnimate, canvasSize>>
    /\ UNCHANGED <<playbackVars, callVars, effectVars>>

\* variant of RetriesOnSettle for a catch block that fetches again
RetryOnFailure(outcome) == IF FetchThrows(outcome) THEN 1 ELSE 0

\* calls of fetch() made when a fetch settles: the catch block only logs
RetriesOnSettle(outcome) == 0

\* fetchWeather after the await: the fetch settles, whether or not the
\* component is still mounted
WeatherSettles ==
    /\ weatherInFlight > 0
    /\ \E outcome \in FetchOutcomes :
          /\ weatherInFlight' = weatherInFlight - 1 + RetriesOnSettle(outcome)
          /\ fetchesIssued' = fetchesIssued + RetriesOnSettle(outcome)
          /\ lastFetch' = outcome.kind
          /\ weather' = IF FetchThrows(outcome) THEN weather
                        ELSE <<WeatherFrom(outcome)>>
    /\ UNCHANGED <<catalog, now, closure, isInteractiveMode, manualScene,
                   activeEntityIndex, frame, phase>>
    /\ UNCHANGED <<weatherTicks, currentTime, prefersReducedMotion,
                   shouldAnimate, canvasSize>>
    /\ UNCHANGED <<playbackVars, callVars, effectVars>>

\* variant of ClockSecond for a setter that is passed the value it holds
ClockSecondKept(second) == second

\* setCurrentTime(new Date()): a new value every second
ClockSecond(second) == 1 - second

\* A tick of the clock interval.  The interval's period is a second, so
\* the effects of the previous tick have re-run when the next one comes.
ClockTick ==
    /\ phase = "mounted"
    /\ timeInterval
    /\ closure.currentTime = currentTime
    /\ currentTime' = ClockSecond(currentTime)
    /\ UNCHANGED <<catalog, now, closure, isInteractiveMode, manualScene,
                   activeEntityIndex, frame, phase>>
    /\ UNCHANGED <<weather, weatherInFlight, lastFetch, fetchesIssued,
                   weatherTicks, prefersReducedMotion, shouldAnimate, canvasSize>>
    /\ UNCHANGED <<playbackVars, callVars, effectVars>>

\* the user changes the preference: the listener calls updateShouldAnimate
MediaQueryChange ==
    /\ phase = "mounted"
    /\ prefersReducedMotion' = ~prefersReducedMotion
    /\ shouldAnimate' = ~prefersReducedMotion'
    /\ UNCHANGED <<catalog, now, closure, isInteractiveMode, manualScene,
                   activeEntityIndex, frame, phase>>
    /\ UNCHANGED <<weather, weatherInFlight, lastFetch, fetchesIssued,
                   weatherTicks, currentTime, canvasSize>>
    /\ UNCHANGED <<playbackVars, callVars, effectVars>>

\* updateSize as the listener of the window's resize event: assigning
\* canvas.width and canvas.height clears the canvas
Resize ==
    /\ phase = "mounted"
    /\ \E parent \in ParentSizes : canvasSize' = CanvasSizeFor(parent)
    /\ canvasDrawn' = FALSE
    /\ UNCHANGED <<catalog, now, closure, isInteractiveMode, manualScene,
                   activeEntityIndex, frame, phase>>
    /\ UNCHANGED <<weather, weatherInFlight, lastFetch, fetchesIssued,
                   weatherTicks, currentTime, prefersReducedMotion, shouldAnimate>>
    /\ UNCHANGED <<weatherInterval, timeInterval, sceneInterval, staticTime,
                   renderTime, animationRefPending, orphanFrames>>
    /\ UNCHANGED <<playbackVars, callVars>>

\* A pending frame fires d ms after the last clock reading and runs the
\* render() that requested it.
AnimationFrame(d) ==
    /\ animationRefPending \/ orphanFrames > 0
    /\ EffectsPending => d = 0
    /\ now + d <= WidgetMaxNow
    /\ now' = now + d
    /\ \E named \in BOOLEAN :
          /\ named => animationRefPending
          /\ ~named => orphanFrames > 0
          /\ SetRendered(Rendered(closure, isInteractiveMode, manualScene, now + d,
                                  ~named /\ animationRefPending,
                                  IF named THEN orphanFrames ELSE orphanFrames - 1))
    /\ UNCHANGED <<catalog, closure, isInteractiveMode, manualScene,
                   activeEntityIndex, frame, phase>>
    /\ UNCHANGED <<weatherInterval, timeInterval, sceneInterval>>
    /\ UNCHANGED <<playbackVars, callVars, ambientVars>>

Frame == \E d \in WidgetDelays : AnimationFrame(d)

\* The host removes the widget: every effect's cleanup runs.
Unmount ==
    /\ phase = "mounted"
    /\ phase' = "unmounted"
    /\ weatherInterval' = FALSE
    /\ timeInterval' = FALSE
    /\ sceneInterval' = ClearInterval(sceneInterval)
    /\ animationRefPending' = CancelFrame(animationRefPending)
    /\ UNCHANGED <<catalog, now, closure, isInteractiveMode, manualScene,
                   activeEntityIndex, frame>>
    /\ UNCHANGED <<staticTime, renderTime, orphanFrames, canvasDrawn>>
    /\ UNCHANGED <<playbackVars, callVars, ambientVars>>

InitWidget ==
    /\ \E cat \in WidgetCatalogs : MountAt(cat, 0, FALSE, 0)
    /\ \E reduced \in BOOLEAN : MountAmbient(reduced, DesktopParent)
    /\ NoCalls

WidgetTick ==
    \E d \in WidgetDelays : now + d <= WidgetMaxNow /\ CheckSceneChange(d)

NextWidget ==
    \/ WidgetTick
    \/ EffectsRerun
    \/ ToggleMode
    \/ Frame
    \/ ClockTick
    \/ MediaQueryChange
    \/ Resize
    \/ Unmount

SpecWidget == InitWidget /\ [][NextWidget]_vars

\* The intervals keep firing while they are scheduled, and React re-runs
\* the effects of a state change.
SpecWidgetFair ==
    /\ SpecWidget
    /\ WF_vars(ClockTick)
    /\ WF_vars(EffectsRerun)

\* The weather poll on its own: the fetches, their outcomes, the re-render
\* that shows them and the unmount.
InitWeather ==
    /\ MountAt(ScenarioCatalog, 0, FALSE, 0)
    /\ \E reduced \in BOOLEAN : MountAmbient(reduced, DesktopParent)
    /\ NoCalls

NextWeather ==
    \/ WeatherPoll
    \/ WeatherSettles
    \/ EffectsRerun
    \/ Unmount

SpecWeather == InitWeather /\ [][NextWeather]_vars

----------------------------------------------------------------------------
(* getStyleVariant and hashString.                                         *)
(* A string is the sequence of its UTF-16 code units.  A signed 32-bit     *)
(* value is an integer in -2^31 .. 2^31-1; the 32-bit operations work on   *)
(* its two 16-bit halves.  Math.abs(hash) can be 2^31, so it is kept as    *)
(* the pair of its halves.  A fractional field is the pair                 *)
(* <<numerator, denominator>> of its exact value.                          *)

MaxLabelLen == 3        \* longest style label built from LabelAlphabet

LabelAlphabet == {45, 97, 122}

NamedLabels ==
    {<<115, 119, 105, 114, 108>>,                                    \* swirl
     <<112, 117, 108, 115, 101, 45, 119, 97, 118, 101>>,             \* pulse-wave
     <<97, 99, 99, 114, 101, 116, 105, 111, 110, 45, 115, 112, 105, 114, 97, 108>>}  \* accretion-spiral

\* labels whose hash is an edge of the signed 32-bit range or fills a
\* masked field: -2^31, -2^31 + 1, -1, 2^31 - 1, 1020 and 0
EdgeLabels ==
    {<<2325, 9, 30, 12, 2>>, <<2325, 9, 30, 12, 3>>, <<4650, 19, 29, 24, 3>>,
     <<2325, 9, 30, 12, 1>>, <<0, 0, 1, 1, 28>>, <<0>>}

StyleLabels == SeqsUpTo(LabelAlphabet, MaxLabelLen) \cup NamedLabels \cup EdgeLabels

BASE_STYLES == <<"drift", "swirl", "pulse", "twinkle", "wave", "orbit", "flare", "ripple">>

TYPE_STYLE_BIAS ==
    [blackhole |-> <<"swirl", "ripple", "flare">>,
     sun |-> <<"pulse", "flare", "wave">>,
     star |-> <<"twinkle", "pulse", "wave">>,
     pulsar |-> <<"pulse", "flare">>,
     nebula |-> <<"wave", "ripple", "drift">>,
     galaxy |-> <<"swirl", "drift", "ripple">>,
     cluster |-> <<"twinkle", "pulse", "ripple">>,
     quasar |-> <<"flare", "swirl", "pulse">>,
     supernova |-> <<"flare", "wave", "pulse">>,
     exoplanet |-> <<"orbit", "drift", "wave">>,
     rings |-> <<"orbit", "ripple", "drift">>,
     comet |-> <<"drift", "ripple", "flare">>,
     meteoroid |-> <<"drift", "flare", "wave">>,
     asteroid |-> <<"drift", "orbit", "ripple">>,
     moon |-> <<"orbit", "twinkle", "wave">>,
     cloud |-> <<"ripple", "wave", "drift">>,
     structure |-> <<"swirl", "ripple", "drift">>,
     stream |-> <<"wave", "drift", "ripple">>,
     rogueplanet |-> <<"orbit", "drift", "pulse">>,
     phenomena |-> <<"flare", "wave", "pulse">>,
     wave |-> <<"wave", "ripple", "drift">>,
     magnetar |-> <<"pulse", "flare", "swirl">>,
     burst |-> <<"flare", "pulse", "wave">>,
     core |-> <<"swirl", "pulse", "flare">>,
     background |-> <<"ripple", "drift", "wave">>,
     halo |-> <<"ripple", "swirl", "orbit">>,
     browndwarf |-> <<"pulse", "flare", "twinkle">>,
     void |-> <<"drift", "ripple", "swirl">>,
     boundary |-> <<"wave", "ripple", "flare">>,
     belt |-> <<"orbit", "drift", "ripple">>,
     dwarfplanet |-> <<"orbit", "pulse", "drift">>,
     supercluster |-> <<"swirl", "twinkle", "ripple">>,
     frb |-> <<"flare", "pulse", "twinkle">>]

\* the 13 type tags the renderer dispatches on
KnownTypes ==
    {"meteoroid", "comet", "blackhole", "sun", "star", "pulsar", "nebula",
     "galaxy", "cluster", "quasar", "supernova", "exoplanet", "rings"}

\* TYPE_STYLE_BIAS is a plain object: a key it does not declare but
\* inherits from Object.prototype is looked up successfully and yields a
\* function, not undefined, so ?? does not fall back to BASE_STYLES.
InheritedKeys == {"constructor", "toString"}

EntityTypes ==
    DOMAIN TYPE_STYLE_BIAS \cup InheritedKeys \cup {"", "wormhole", "Star"}

CharCodes ==
    [blackhole |-> <<98, 108, 97, 99, 107, 104, 111, 108, 101>>,
     sun |-> <<115, 117, 110>>,
     star |-> <<115, 116, 97, 114>>,
     pulsar |-> <<112, 117, 108, 115, 97, 114>>,
     nebula |-> <<110, 101, 98, 117, 108, 97>>,
     galaxy |-> <<103, 97, 108, 97, 120, 121>>,
     cluster |-> <<99, 108, 117, 115, 116, 101, 114>>,
     quasar |-> <<113, 117, 97, 115, 97, 114>>,
     supernova |-> <<115, 117, 112, 101, 114, 110, 111, 118, 97>>,
     exoplanet |-> <<101, 120, 111, 112, 108, 97, 110, 101, 116>>,
     rings |-> <<114, 105, 110, 103, 115>>,
     comet |-> <<99, 111, 109, 101, 116>>,
     meteoroid |-> <<109, 101, 116, 101, 111, 114, 111, 105, 100>>,
     asteroid |-> <<97, 115, 116, 101, 114, 111, 105, 100>>,
     moon |-> <<109, 111, 111, 110>>,
     cloud |-> <<99, 108, 111, 117, 100>>,
     structure |-> <<115, 116, 114, 117, 99, 116, 117, 114, 101>>,
     stream |-> <<115, 116, 114, 101, 97, 109>>,
     rogueplanet |-> <<114, 111, 103, 117, 101, 112, 108, 97, 110, 101, 116>>,
     phenomena |-> <<112, 104, 101, 110, 111, 109, 101, 110, 97>>,
     wave |-> <<119, 97, 118, 101>>,
     magnetar |-> <<109, 97, 103, 110, 101, 116, 97, 114>>,
     burst |-> <<98, 117, 114, 115, 116>>,
     core |-> <<99, 111, 114, 101>>,
     background |-> <<98, 97, 99, 107, 103, 114, 111, 117, 110, 100>>,
     halo |-> <<104, 97, 108, 111>>,
     browndwarf |-> <<98, 114, 111, 119, 110, 100, 119, 97, 114, 102>>,
     void |-> <<118, 111, 105, 100>>,
     boundary |-> <<98, 111, 117, 110, 100, 97, 114, 121>>,
     belt |-> <<98, 101, 108, 116>>,
     dwarfplanet |-> <<100, 119, 97, 114, 102, 112, 108, 97, 110, 101, 116>>,
     supercluster |-> <<115, 117, 112, 101, 114, 99, 108, 117, 115, 116, 101, 114>>,
     frb |-> <<102, 114, 98>>,
     cosmic |-> <<99, 111, 115, 109, 105, 99>>,
     wormhole |-> <<119, 111, 114, 109, 104, 111, 108, 101>>,
     Star |-> <<83, 116, 97, 114>>,
     constructor |-> <<99, 111, 110, 115, 116, 114, 117, 99, 116, 111, 114>>,
     toString |-> <<116, 111, 83, 116, 114, 105, 110, 103>>]

CharCodesOf(s) == IF s = "" THEN <<>> ELSE CharCodes[s]

Lo16(x) == x % 65536

Hi16(x) == (x \div 65536) % 65536

ToInt32(hi, lo) ==
    IF hi >= 32768 THEN (hi - 65536) * 65536 + lo ELSE hi * 65536 + lo

\* x << 5
ShiftLeft5(x) ==
    LET lo == Lo16(x) * 32
        hi == Hi16(x) * 32 + (lo \div 65536)
    IN  ToInt32(hi % 65536, lo % 65536)

\* variant of HashStep that shifts and does not subtract: multiplier 32
HashStepShiftOnly(hash, code) ==
    LET shifted == ShiftLeft5(hash)
        lo == Lo16(shifted) + code
        hi == Hi16(shifted) + (lo \div 65536)
    IN  ToInt32(hi % 65536, lo % 65536)

\* hash = (hash << 5) - hash + code; hash |= 0
HashStep(hash, code) ==
    LET shifted == ShiftLeft5(hash)
        lo == Lo16(shifted) - Lo16(hash) + code
        hi == Hi16(shifted) - Hi16(hash) + (lo \div 65536)
    IN  ToInt32(hi % 65536, lo % 65536)

\* the loop of hashString from index i on; the running hash is bound as a
\* value at each step
RECURSIVE HashFrom(_, _, _)
HashFrom(hash, value, i) ==
    IF i > Len(value) THEN hash
    ELSE CHOOSE result \in {HashFrom(h, value, i + 1) : h \in {HashStep(hash, value[i])}} : TRUE

hashString(value) == HashFrom(0, value, 1)

MinInt32 == -2147483647 - 1

\* Math.abs of a signed 32-bit value, as <<high half, low half>>
MathAbs(h) ==
    IF h = MinInt32 THEN <<32768, 0>>
    ELSE LET a == IF h < 0 THEN -h ELSE h IN <<Hi16(a), Lo16(a)>>

\* hash % n for a hash given by its halves
HashMod(hash, n) == ((hash[1] % n) * (65536 % n) + hash[2]) % n

Pow2(k) == IF k = 0 THEN 1 ELSE 2 ^ k

\* variant of Take that reduces the shifted value with the remainder
\* operator, which keeps the sign of a negative value
TakeSignedRemainder(hash, shift, bits) ==
    JsRem(ToInt32(hash[1], hash[2]) \div Pow2(shift), Pow2(bits))

\* (hash >> shift) & mask, mask = 2^bits - 1
Take(hash, shift, bits) ==
    IF shift >= 16
    THEN (hash[1] \div Pow2(shift - 16)) % Pow2(bits)
    ELSE ((hash[2] \div Pow2(shift)) + hash[1] * Pow2(16 - shift)) % Pow2(bits)

\* animationStyle || entityType || "cosmic"
HashedText(style, type) ==
    IF style # <<>> THEN style
    ELSE IF type # "" THEN CharCodesOf(type)
    ELSE CharCodesOf("cosmic")

\* bias[hash % bias.length], bias = TYPE_STYLE_BIAS[entityType] ?? BASE_STYLES
BaseStyleFor(hash, type) ==
    IF type \in DOMAIN TYPE_STYLE_BIAS
    THEN TYPE_STYLE_BIAS[type][HashMod(hash, Len(TYPE_STYLE_BIAS[type])) + 1]
    ELSE IF type \in InheritedKeys
    THEN "undefined"
    ELSE BASE_STYLES[HashMod(hash, Len(BASE_STYLES)) + 1]

getStyleVariant(style, type) ==
    LET hash == MathAbs(hashString(HashedText(style, type)))
    IN  [baseStyle |-> BaseStyleFor(hash, type),
         speedMultiplier |-> <<6 * 255 + 22 * Take(hash, 2, 8), 10 * 255>>,
         densityMultiplier |-> <<7 * 255 + 25 * Take(hash, 10, 8), 10 * 255>>,
         intensity |-> <<5 * 255 + 15 * Take(hash, 18, 8), 10 * 255>>,
         oscillationPhase |-> <<Take(hash, 24, 8), 255>>,   \* in units of 2 pi
         distortion |-> <<Take(hash, 5, 6), 63>>,
         seed |-> hash]

CallGetStyleVariant ==
    /\ variant = <<>>
    /\ variant' = <<getStyleVariant(animationStyle, entityType)>>
    /\ UNCHANGED <<catalog, now, closure, isInteractiveMode, manualScene,
                   activeEntityIndex, frame, phase, animationStyle, entityType>>
    /\ UNCHANGED <<playbackVars, hashVars, renderVars, effectVars, ambientVars, weatherTextVars,
                   ditherVars, drawVars>>

InitVariant ==
    /\ MountAt(ScenarioCatalog, 0, FALSE, 0)
    /\ MountAmbient(FALSE, DesktopParent)
    /\ animationStyle \in StyleLabels
    /\ entityType \in EntityTypes
    /\ variant = <<>>
    /\ NoWeatherTextCall
    /\ NoDitherCall
    /\ NoDrawCall
    /\ NoHashCall
    /\ NoRenderCall

NextVariant == CallGetStyleVariant

SpecVariant == InitVariant /\ [][NextVariant]_vars

----------------------------------------------------------------------------
(* hashString called on its own, with strings of code units up to the      *)
(* largest one, long enough for 31 * hash to leave the 32-bit range.       *)

MaxHashLen == 6         \* longest string built from HashAlphabet

HashAlphabet == {45, 122, 65535}

HashInputs ==
    SeqsUpTo(HashAlphabet, MaxHashLen) \cup NamedLabels \cup EdgeLabels

CallHashString ==
    /\ hashResult = <<>>
    /\ hashResult' = <<hashString(hashedValue)>>
    /\ UNCHANGED <<catalog, now, closure, isInteractiveMode, manualScene,
                   activeEntityIndex, frame, phase, hashedValue>>
    /\ UNCHANGED <<playbackVars, variantVars, weatherTextVars, ditherVars,
                   drawVars, renderVars, effectVars, ambientVars>>

InitHash ==
    /\ MountAt(ScenarioCatalog, 0, FALSE, 0)
    /\ MountAmbient(FALSE, DesktopParent)
    /\ NoVariantCall
    /\ NoWeatherTextCall
    /\ NoDitherCall
    /\ NoDrawCall
    /\ NoRenderCall
    /\ hashedValue \in HashInputs
    /\ hashResult = <<>>

NextHash == CallHashString

SpecHash == InitHash /\ [][NextHash]_vars

----------------------------------------------------------------------------
(* The glyph renderers that draw from Math.random(): drawNebula,            *)
(* drawStarCluster and drawSupernovaRemnant.                                *)
(* A value of Math.random() is k / RandomDen for a k of RandomSteps; which  *)
(* one a call returns is not determined by the renderer's arguments.  A     *)
(* draw command keeps what the code computes from the arguments and the     *)
(* random values: the glyph's index in the renderer's chars, the palette    *)
(* index, and radius, alpha, size and jitter as numerators over fixed       *)
(* denominators; the sine and cosine terms are functions of the time and    *)
(* the loop index, which the command carries as they are.  Of each loop     *)
(* the first MaxDrawPoints iterations are kept.                             *)

MaxDrawPoints == 1      \* iterations kept of each drawing loop

RandomSteps == {0, 1}

RandomDen == Cardinality(RandomSteps)

DrawTimes == {0, 1000}

RandomRenderers == {"nebula", "cluster", "supernova"}

\* calls of Math.random() in one iteration of the renderer's random loop
RandomsPerPoint(type) ==
    IF type = "nebula" THEN 2 ELSE IF type = "cluster" THEN 4 ELSE 1

\* drawNebula, one cloud point: radius = 40 + random * 160 * (0.6 + dm * 0.4),
\* density = random, char = chars[floor(density * 6)], palette index
\* (floor((density + distortion) * 3) + i) % 3, alpha 0.25 + density * 0.55
NebulaPoint(i, t, v, r1, r2) ==
    [glyph |-> (r2 * 6) \div RandomDen,
     colour |-> ((3 * (r2 * v.distortion[2] + RandomDen * v.distortion[1]))
                   \div (RandomDen * v.distortion[2]) + i) % 3,
     radius |-> 40 * 10 * v.densityMultiplier[2] * RandomDen
                + r1 * 160 * (6 * v.densityMultiplier[2] + 4 * v.densityMultiplier[1]),
     alpha |-> 25 * RandomDen + 55 * r2,
     index |-> i,
     time |-> t]

\* drawStarCluster, one star: radius = 25 + random * (100 + dm * 60), x and
\* y moved by (random - 0.5) * jitter, jitter = 40 + distortion * 60,
\* size = 10 + random * (14 + intensity * 6), char = chars[i % 5], palette
\* index i % 3
ClusterStar(i, t, v, r1, r2, r3, r4) ==
    LET jitter == 40 * v.distortion[2] + 60 * v.distortion[1]
    IN  [glyph |-> i % 5,
         colour |-> i % 3,
         radius |-> 25 * v.densityMultiplier[2] * RandomDen
                    + r1 * (100 * v.densityMultiplier[2] + 60 * v.densityMultiplier[1]),
         jitterX |-> (2 * r2 - RandomDen) * jitter,
         jitterY |-> (2 * r3 - RandomDen) * jitter,
         size |-> 10 * v.intensity[2] * RandomDen
                  + r4 * (14 * v.intensity[2] + 6 * v.intensity[1]),
         index |-> i,
         time |-> t]

\* drawSupernovaRemnant, one point of the shock wave: no random value
ShockPoint(i, t) == [glyph |-> i % 6, colour |-> i % 3, index |-> i, time |-> t]

\* drawSupernovaRemnant, one point of the filaments:
\* radius = 50 + random * (140 + dm * 80)
FilamentPoint(i, v, r1) ==
    [glyph |-> 6,
     colour |-> 1,
     radius |-> 50 * v.densityMultiplier[2] * RandomDen
                + r1 * (140 * v.densityMultiplier[2] + 80 * v.densityMultiplier[1]),
     index |-> i]

\* The draw commands of one invocation; rs is the sequence of the values
\* Math.random() returns, in the order of the calls.
DrawCommands(type, t, v, rs) ==
    IF type = "nebula"
    THEN [p \in 1 .. MaxDrawPoints |->
            NebulaPoint(p - 1, t, v, rs[2 * p - 1], rs[2 * p])]
    ELSE IF type = "cluster"
    THEN [p \in 1 .. MaxDrawPoints |->
            ClusterStar(p - 1, t, v, rs[4 * p - 3], rs[4 * p - 2],
                        rs[4 * p - 1], rs[4 * p])]
    ELSE [p \in 1 .. MaxDrawPoints |-> ShockPoint(p - 1, t)]
         \o [p \in 1 .. MaxDrawPoints |-> FilamentPoint(p - 1, v, rs[p])]

\* One invocation of the renderer with the arguments of the state.
InvokeRenderer ==
    /\ Len(draws) < 2
    /\ \E rs \in [1 .. (RandomsPerPoint(renderer) * MaxDrawPoints) -> RandomSteps] :
          draws' = Append(draws, DrawCommands(renderer, drawTime, drawVariant, rs))
    /\ UNCHANGED <<catalog, now, closure, isInteractiveMode, manualScene,
                   activeEntityIndex, frame, phase, renderer, drawTime, drawVariant>>
    /\ UNCHANGED <<playbackVars, hashVars, renderVars, variantVars, weatherTextVars, ditherVars,
                   effectVars, ambientVars>>

InitRenderers ==
    /\ MountAt(ScenarioCatalog, 0, FALSE, 0)
    /\ MountAmbient(FALSE, DesktopParent)
    /\ NoVariantCall
    /\ NoWeatherTextCall
    /\ NoDitherCall
    /\ NoHashCall
    /\ NoRenderCall
    /\ renderer \in RandomRenderers
    /\ drawTime \in DrawTimes
    /\ \E style \in NamedLabels : drawVariant = getStyleVariant(style, renderer)
    /\ draws = <<>>

NextRenderers == InvokeRenderer

SpecRenderers == InitRenderers /\ [][NextRenderers]_vars

----------------------------------------------------------------------------
(* render() and renderEntity with the particle pool.                       *)
(* updateParticles treats each particle on its own, so the pool is kept    *)
(* as the sequence of its particles' creation numbers, and one particle,   *)
(* chosen at mount by its creation number, is followed with its fields.    *)
(* Positions, velocities and lives are exact fractions <<n, d>>, d > 0,    *)
(* in lowest terms.  Of createParticle the draws for x, y, vx, vy and      *)
(* life are kept; the glyph and the colour of a particle are not.          *)

MaxRenders == 2         \* calls of render() in a behaviour

PipelineParents == {<<300, 200>>, <<1600, 1200>>}

MountParticles == 200

\* the first and the last particle of the mount, and the first one a call
\* of renderEntity appends
ProbeIds == {1, MountParticles, MountParticles + 1}

\* the catalog of this specification: labels with the hashes 0 and 2^31 - 1
\* (every masked field 0, and every field of the variant at its maximum),
\* for a type with a renderer, a type with a style bias and no renderer,
\* and an inherited key of TYPE_STYLE_BIAS
PipelineEntities ==
    <<[type |-> "nebula", animationStyle |-> <<0>>],
      [type |-> "asteroid", animationStyle |-> <<2325, 9, 30, 12, 1>>],
      [type |-> "constructor", animationStyle |-> <<2325, 9, 30, 12, 1>>]>>

Abs(x) == IF x < 0 THEN -x ELSE x

RECURSIVE Gcd(_, _)
Gcd(a, b) == IF b = 0 THEN a ELSE Gcd(b, a % b)

\* the fraction n / d in lowest terms
Rat(n, d) == LET g == Gcd(Abs(n), d) IN <<n \div g, d \div g>>

RatAdd(a, b) == Rat(a[1] * b[2] + b[1] * a[2], a[2] * b[2])

RatMul(a, b) == Rat(a[1] * b[1], a[2] * b[2])

RatLess(a, b) == a[1] * b[2] < b[1] * a[2]

\* a value of Math.random()
Rnd(k) == Rat(k, RandomDen)

\* scaleFactor = Math.min(1, Math.max(0.6, width / threshold)); the size
\* passed to renderEntity is <<width / scaleFactor, height / scaleFactor>>
LogicalSize(size) ==
    LET threshold == IF size[1] < 640 THEN 480 ELSE 700
        ratio == Rat(size[1], threshold)
        scaleFactor == IF RatLess(ratio, <<3, 5>>) THEN <<3, 5>>
                       ELSE IF RatLess(<<1, 1>>, ratio) THEN <<1, 1>>
                       ELSE ratio
    IN  <<Rat(size[1] * scaleFactor[2], scaleFactor[1]),
          Rat(size[2] * scaleFactor[2], scaleFactor[1])>>

\* Math.max(40, Math.floor(90 * variant.densityMultiplier))
TargetParticleCount(v) ==
    LET scaled == (90 * v.densityMultiplier[1]) \div v.densityMultiplier[2]
    IN  IF scaled > 40 THEN scaled ELSE 40

\* while (particles.length < target) particles.push(createParticle(...))
GrowPool(pool, target, created) ==
    IF Len(pool) < target
    THEN pool \o [j \in 1 .. (target - Len(pool)) |-> created + j]
    ELSE pool

\* variant of ShrinkPool that discards from the front of the pool
ShrinkPoolFromFront(pool, target) ==
    IF Len(pool) > target
    THEN SubSeq(pool, Len(pool) - target + 1, Len(pool))
    ELSE pool

\* while (particles.length > target) particles.pop()
ShrinkPool(pool, target) ==
    IF Len(pool) > target THEN SubSeq(pool, 1, target) ELSE pool

InPool(id, pool) == \E j \in 1 .. Len(pool) : pool[j] = id

\* createParticle: rs are the values of Math.random() for x, y, vx, vy, life
CreateParticle(id, w, h, rs) ==
    [id |-> id,
     x |-> RatMul(Rnd(rs[1]), w),
     y |-> RatMul(Rnd(rs[2]), h),
     vx |-> RatMul(RatAdd(Rnd(rs[3]), <<-1, 2>>), <<1, 2>>),
     vy |-> RatMul(RatAdd(Rnd(rs[4]), <<-1, 2>>), <<1, 2>>),
     life |-> RatMul(Rnd(rs[5]), <<100, 1>>),
     maxLife |-> <<100, 1>>]

\* updateParticles, the three assignments before the test
MovedParticle(p, v) ==
    LET speedFactor == RatMul(<<2, 5>>, Rat(v.speedMultiplier[1], v.speedMultiplier[2]))
        decay == RatAdd(<<2, 5>>, RatMul(Rat(v.intensity[1], v.intensity[2]), <<1, 5>>))
    IN  [p EXCEPT !.x = RatAdd(p.x, RatMul(p.vx, speedFactor)),
                  !.y = RatAdd(p.y, RatMul(p.vy, speedFactor)),
                  !.life = RatAdd(p.life, <<0 - decay[1], decay[2]>>)]

\* variant of Expired that tests the position only
OutOfBounds(p, w, h) ==
    \/ RatLess(p.x, <<0, 1>>)
    \/ RatLess(w, p.x)
    \/ RatLess(p.y, <<0, 1>>)
    \/ RatLess(h, p.y)

\* p.life <= 0 || p.x < 0 || p.x > width || p.y < 0 || p.y > height
Expired(p, w, h) ==
    \/ ~RatLess(<<0, 1>>, p.life)
    \/ RatLess(p.x, <<0, 1>>)
    \/ RatLess(w, p.x)
    \/ RatLess(p.y, <<0, 1>>)
    \/ RatLess(h, p.y)

\* the respawn: rs are the values of Math.random() for x, y, vx, vy
Respawned(p, w, h, v, rs) ==
    LET speed == Rat(v.speedMultiplier[1], v.speedMultiplier[2])
    IN  [p EXCEPT !.x = RatMul(Rnd(rs[1]), w),
                  !.y = RatMul(Rnd(rs[2]), h),
                  !.life = p.maxLife,
                  !.vx = RatMul(RatAdd(Rnd(rs[3]), <<-1, 2>>), speed),
                  !.vy = RatMul(RatAdd(Rnd(rs[4]), <<-1, 2>>), speed)]

\* updateParticles for one particle: what it can be afterwards
UpdatedParticle(p, w, h, v) ==
    LET moved == MovedParticle(p, v)
    IN  IF Expired(moved, w, h)
        THEN {Respawned(moved, w, h, v, rs) : rs \in [1 .. 4 -> RandomSteps]}
        ELSE {moved}

\* the switch of renderEntity: the glyph renderer called for a type
GlyphRenderer(type) ==
    IF type \in {"meteoroid", "comet"} THEN <<"drawMeteoroidField">>
    ELSE IF type = "blackhole" THEN <<"drawBlackHole">>
    ELSE IF type \in {"sun", "star"} THEN <<"drawStar">>
    ELSE IF type = "pulsar" THEN <<"drawPulsar">>
    ELSE IF type = "nebula" THEN <<"drawNebula">>
    ELSE IF type = "galaxy" THEN <<"drawGalaxy">>
    ELSE IF type = "cluster" THEN <<"drawStarCluster">>
    ELSE IF type = "quasar" THEN <<"drawQuasar">>
    ELSE IF type = "supernova" THEN <<"drawSupernovaRemnant">>
    ELSE IF type = "exoplanet" THEN <<"drawExoplanet">>
    ELSE IF type = "rings" THEN <<"drawPlanetaryRings">>
    ELSE <<>>

\* One call of renderEntity on the pool st for the entity e: the set of
\* what the pool can be afterwards, each with the record of the call.
RenderEntity(st, w, h, e) ==
    LET v == getStyleVariant(e.animationStyle, e.type)
        target == TargetParticleCount(v)
        grown == GrowPool(st.particles, target, st.created)
        made == st.created + (Len(grown) - Len(st.particles))
        pool == ShrinkPool(grown, target)
        resized ==
            IF probeId > st.created /\ probeId <= made
            THEN {<<CreateParticle(probeId, w, h, rs)>> : rs \in [1 .. 5 -> RandomSteps]}
            ELSE IF st.probe # <<>> /\ InPool(probeId, pool) THEN {st.probe}
            ELSE {<<>>}
        updated ==
            UNION {IF q = <<>> THEN {<<>>}
                   ELSE {<<u>> : u \in UpdatedParticle(q[1], w, h, v)} : q \in resized}
    IN  {[particles |-> pool,
          created |-> made,
          probe |-> q,
          call |-> [type |-> e.type,
                    densityMultiplier |-> v.densityMultiplier,
                    width |-> w,
                    height |-> h,
                    before |-> st.particles,
                    pool |-> pool,
                    probe |-> q,
                    drew |-> <<"drawStarField", "drawParticles">>
                                 \o GlyphRenderer(e.type)]] : q \in updated}

\* variant.baseStyle.toUpperCase() in drawEnhancedASCIIOverlay throws when
\* the base style is undefined
OverlayThrows(e) ==
    getStyleVariant(e.animationStyle, e.type).baseStyle = "undefined"

\* The calls of renderEntity of one render(): one for a single entity, two
\* in a row on the same pool for a cross-fade.
RenderCalls(st, size, layers) ==
    LET logical == LogicalSize(size)
        first == RenderEntity(st, logical[1], logical[2], PipelineEntities[layers[1]])
    IN  IF Len(layers) = 1 THEN {<<o>> : o \in first}
        ELSE UNION {{<<o, o2>> :
                        o2 \in RenderEntity([particles |-> o.particles,
                                             created |-> o.created,
                                             probe |-> o.probe],
                                            logical[1], logical[2],
                                            PipelineEntities[layers[2]])} :
                    o \in first}

\* render() for the entity i, cross-fading into its successor or not: the
\* calls of renderEntity, then the overlay and the dithering for the
\* entity i.
CallRender ==
    /\ renders < MaxRenders
    /\ ~lastRender.threw
    /\ renders' = renders + 1
    /\ \E i \in 1 .. Len(PipelineEntities), fading \in BOOLEAN :
          LET layers == IF fading
                        THEN <<i, SuccessorIndex(i - 1, Len(PipelineEntities)) + 1>>
                        ELSE <<i>>
              throws == OverlayThrows(PipelineEntities[i])
          IN  \E os \in RenderCalls([particles |-> particles,
                                     created |-> particlesCreated,
                                     probe |-> probe], canvasSize, layers) :
                /\ particles' = os[Len(os)].particles
                /\ particlesCreated' = os[Len(os)].created
                /\ probe' = os[Len(os)].probe
                /\ lastRender' = [calls |-> [k \in 1 .. Len(os) |-> os[k].call],
                                  overlay |-> ~throws,
                                  dithered |-> ~throws,
                                  threw |-> throws]
    /\ UNCHANGED <<catalog, now, closure, isInteractiveMode, manualScene,
                   activeEntityIndex, frame, phase, probeId>>
    /\ UNCHANGED <<playbackVars, variantVars, weatherTextVars, ditherVars,
                   drawVars, hashVars, effectVars, ambientVars>>

\* updateSize as the listener of the window's resize event
PipelineResize ==
    /\ \E parent \in PipelineParents :
          /\ canvasSize' = CanvasSizeFor(parent)
          /\ canvasSize' # canvasSize
    /\ canvasDrawn' = FALSE
    /\ UNCHANGED <<catalog, now, closure, isInteractiveMode, manualScene,
                   activeEntityIndex, frame, phase>>
    /\ UNCHANGED <<weather, weatherInFlight, lastFetch, fetchesIssued,
                   weatherTicks, currentTime, prefersReducedMotion, shouldAnimate>>
    /\ UNCHANGED <<weatherInterval, timeInterval, sceneInterval, staticTime,
                   renderTime, animationRefPending, orphanFrames>>
    /\ UNCHANGED <<playbackVars, callVars>>

\* The mount: 200 particles are created for the size of the canvas.
InitPipeline ==
    /\ MountAt(ScenarioCatalog, 0, FALSE, 0)
    /\ \E parent \in PipelineParents : MountAmbient(FALSE, parent)
    /\ NoVariantCall
    /\ NoWeatherTextCall
    /\ NoDitherCall
    /\ NoDrawCall
    /\ NoHashCall
    /\ particles = [j \in 1 .. MountParticles |-> j]
    /\ particlesCreated = MountParticles
    /\ probeId \in ProbeIds
    /\ probe \in IF probeId <= MountParticles
                 THEN {<<CreateParticle(probeId, <<canvasSize[1], 1>>,
                                        <<canvasSize[2], 1>>, rs)>> :
                          rs \in [1 .. 5 -> RandomSteps]}
                 ELSE {<<>>}
    /\ lastRender = NoRender
    /\ renders = 0

NextPipeline == CallRender \/ PipelineResize

SpecPipeline == InitPipeline /\ [][NextPipeline]_vars

----------------------------------------------------------------------------
(* Properties. *)

N == EntityCount(catalog)

\* C1: in auto-play, every change of the current entity index goes from i
\* to (i + 1) mod N: catalog order, wrapping to 0 after the last entity.
C1_CatalogOrder ==
    [][currentEntityIndex' # currentEntityIndex
         => currentEntityIndex' = (currentEntityIndex + 1) % N]_vars

\* the machine has gone through a catalog of 3 and wrapped to entity 0
C1_Witness ==
    /\ N = 3
    /\ currentEntityIndex = 0
    /\ lastSceneChange > 0
    /\ phase = "mounted"

\* C2: while a transition lasts, no tick lowers transitionProgress; the
\* tick that commits (it moves lastSceneChange) leaves it at 0.
C2_ProgressMonotone ==
    [][/\ (isTransitioning /\ isTransitioning' /\ lastSceneChange' = lastSceneChange)
            => transitionProgress' >= transitionProgress
       /\ lastSceneChange' # lastSceneChange
            => (transitionProgress' = 0 /\ ~isTransitioning')]_vars

\* a commit that followed a transition whose progress had advanced
C2_Witness ==
    /\ lastSceneChange > 0
    /\ transitionProgress = 0
    /\ ~isTransitioning
    /\ closure.isTransitioning
    /\ closure.transitionProgress > 0

\* C3: transitionProgress lies in [0, 1] in every reachable state.
C3_ProgressInUnitInterval ==
    transitionProgress \in 0 .. transitionDuration

\* C4: for every non-empty catalog, the current and the next entity index
\* are both within 0..N-1.
C4_IndicesInCatalog ==
    /\ currentEntityIndex \in 0 .. (N - 1)
    /\ nextEntityIndex \in 0 .. (N - 1)

\* the state of the scenario at time t: the last tick was at or before t
\* and the next one comes after t
ScenarioAt(t) == now <= t /\ t < now + TickMs /\ ~EffectsPending

\* C5 as stated: Transitioning with progress 0.5 at t = 2500; at t = 3000
\* committed to entity 1 (next 2), Showing, progress 0, clock reset to 3000.
C5_AsStated ==
    /\ ScenarioAt(2500) => (isTransitioning /\ transitionProgress = 500)
    /\ ScenarioAt(3000) =>
          /\ currentEntityIndex = 1
          /\ nextEntityIndex = 2
          /\ ~isTransitioning
          /\ transitionProgress = 0
          /\ lastSceneChange = 3000

\* C5: with the 16 ms interval the transition starts on the tick at 2000;
\* at t = 2500 the machine is Transitioning with the progress 0.496 of the
\* tick at 2496, at t = 3000 it is still Transitioning (0.992 from the tick
\* at 2992), and the tick at 3008 commits to entity 1 (next 2), Showing,
\* progress 0, clock reset to 3008.
C5_Scenario ==
    /\ now < 2000 => (~isTransitioning /\ currentEntityIndex = 0 /\ lastSceneChange = 0)
    /\ ScenarioAt(2500) =>
          /\ isTransitioning
          /\ transitionProgress = 496
          /\ currentEntityIndex = 0
    /\ ScenarioAt(3000) =>
          /\ isTransitioning
          /\ transitionProgress = 992
          /\ currentEntityIndex = 0
    /\ now >= 3008 =>
          /\ currentEntityIndex = 1
          /\ nextEntityIndex = 2
          /\ ~isTransitioning
          /\ transitionProgress = 0
          /\ lastSceneChange = 3008

\* the commit of the scenario has happened
C5_Witness ==
    /\ catalog = ScenarioCatalog
    /\ lastSceneChange = 3008
    /\ currentEntityIndex = 1
    /\ ~EffectsPending

\* C6: in interactive mode the index render() uses is manualScene mod N
\* and lies in 0..N-1, for every integer manualScene, negative ones included.
C6_ManualIndexInCatalog ==
    isInteractiveMode =>
        /\ activeEntityIndex = manualScene % N
        /\ activeEntityIndex \in 0 .. (N - 1)

\* C7: while interactive mode is on, no step changes the playback state,
\* and the frame is the single entity manualScene mod N at full alpha.
C7_InteractiveBypass ==
    /\ [](isInteractiveMode /\ phase = "mounted"
            => frame = <<Layer(manualScene % N, FullAlpha)>>)
    /\ [][(isInteractiveMode /\ isInteractiveMode') => UNCHANGED playbackVars]_vars

\* interactive mode entered in the middle of a cross-fade, another scene chosen
C7_Witness ==
    /\ isInteractiveMode
    /\ isTransitioning
    /\ transitionProgress > 0
    /\ manualScene # currentEntityIndex
    /\ frame = <<Layer(manualScene, FullAlpha)>>

\* C8: the manual scene index stays within 0..N-1; previous gives
\* (index - 1 + N) mod N, next gives (index + 1) mod N, and a toggle of the
\* mode leaves the index unchanged.
C8_ManualSceneInRange ==
    /\ [](manualScene \in 0 .. (N - 1))
    /\ [][/\ PressPrevious => manualScene' = (manualScene - 1 + N) % N
          /\ PressNext => manualScene' = (manualScene + 1) % N
          /\ ToggleMode => manualScene' = manualScene]_vars

\* the index at the last entity of a catalog of 3, in interactive mode
C8_Witness ==
    /\ isInteractiveMode
    /\ N = 3
    /\ manualScene = N - 1

SeqRange(s) == {s[i] : i \in 1 .. Len(s)}

\* C10: for a known type the base style is an element of that type's
\* declared bias list, for a type with no declared list it is an element
\* of BASE_STYLES; it is never undefined.

C10_BaseStyleFromBias ==
    variant # <<>> =>
        /\ entityType \in KnownTypes
              => variant[1].baseStyle \in SeqRange(TYPE_STYLE_BIAS[entityType])
        /\ entityType \notin DOMAIN TYPE_STYLE_BIAS
              => variant[1].baseStyle \in SeqRange(BASE_STYLES)
        /\ variant[1].baseStyle # "undefined"

\* the values a tick of the scene-advance interval works with: the time it
\* reads, and the entity and the flag its callback holds
TickElapsed == now' - lastSceneChange

TickDuration == EntityDuration(catalog, closure.currentEntityIndex)

TickSeesEntity == Tick /\ EntityDefined(catalog, closure.currentEntityIndex)

Committed ==
    /\ currentEntityIndex' = nextEntityIndex
    /\ nextEntityIndex' = (nextEntityIndex + 1) % N
    /\ lastSceneChange' = now'
    /\ transitionProgress' = 0
    /\ ~isTransitioning'

\* C17 as stated: every tick in Showing with elapsed >= duration, however
\* late, moves to Transitioning with progress 0 and commits nothing; a
\* commit is only taken from Transitioning.
C17_AsStated ==
    [][/\ (TickSeesEntity /\ ~closure.isTransitioning /\ TickElapsed >= TickDuration)
            => /\ isTransitioning'
               /\ transitionProgress' = 0
               /\ UNCHANGED <<currentEntityIndex, nextEntityIndex, lastSceneChange>>
       /\ lastSceneChange' # lastSceneChange => isTransitioning]_vars

\* C17: a tick in Showing with duration <= elapsed < duration + 1000 sets
\* the transitioning flag and changes nothing else (the progress is left
\* as it is); a tick with elapsed >= duration + 1000 commits to the next
\* entity, from Showing as well as from Transitioning.
C17_StartOrLateCommit ==
    [][TickSeesEntity =>
          /\ (/\ ~closure.isTransitioning
              /\ TickElapsed >= TickDuration
              /\ TickElapsed < TickDuration + transitionDuration)
                => /\ isTransitioning'
                   /\ UNCHANGED <<currentEntityIndex, nextEntityIndex,
                                  lastSceneChange, transitionProgress>>
          /\ TickElapsed >= TickDuration + transitionDuration => Committed]_vars

\* a late tick has committed to entity 1 straight from Showing
C17_Witness ==
    /\ N >= 2
    /\ currentEntityIndex = 1
    /\ lastSceneChange > 0
    /\ ~isTransitioning
    /\ closure.currentEntityIndex = 0
    /\ ~closure.isTransitioning

\* C18: a tick with elapsed >= duration + 1000 commits: current index :=
\* old next index, next index := (old next index + 1) mod N, last scene
\* change := the tick's time, progress := 0, flag := false.  A tick that
\* finds the machine Transitioning with elapsed < duration + 1000 sets the
\* progress to (elapsed - duration) / 1000 and leaves the indices alone.
C18_CommitAndProgress ==
    [][TickSeesEntity =>
          /\ TickElapsed >= TickDuration + transitionDuration => Committed
          /\ (closure.isTransitioning /\ TickElapsed < TickDuration + transitionDuration)
                => /\ transitionProgress' = TickElapsed - TickDuration
                   /\ UNCHANGED <<currentEntityIndex, nextEntityIndex>>]_vars

\* the last entity of a catalog of 3 is cross-fading into entity 0, half way
C18_Witness ==
    /\ N = 3
    /\ currentEntityIndex = 2
    /\ nextEntityIndex = 0
    /\ isTransitioning
    /\ transitionProgress = 500

\* C19: a tick whose elapsed time since the last commit (since mount for
\* the first entity) is below the current entity's duration starts no
\* transition and commits nothing, also right after the page has gone from
\* interactive mode back to auto-play.
C19_FullDuration ==
    [][(/\ Tick
        /\ \E i \in {currentEntityIndex, closure.currentEntityIndex} :
              /\ EntityDefined(catalog, i)
              /\ TickElapsed < EntityDuration(catalog, i))
          => UNCHANGED <<currentEntityIndex, nextEntityIndex,
                         isTransitioning, lastSceneChange>>]_vars

\* back in auto-play after a visit to interactive mode (the manual scene
\* was moved), a tick has run before the current entity's duration is over
C19_Witness ==
    /\ ~isInteractiveMode
    /\ manualScene # 0
    /\ lastSceneChange > 0
    /\ now > lastSceneChange
    /\ EntityDefined(catalog, currentEntityIndex)
    /\ now - lastSceneChange < EntityDuration(catalog, currentEntityIndex)
    /\ ~isTransitioning
    /\ ~EffectsPending

\* C11: getWeatherText maps 0 to CLEAR, 1..3 to CLOUDY, 45..48 to FOGGY,
\* 51..67 to RAINY, 71..77 to SNOWY, 80..99 to STORMY and every other
\* integer (negative, 4..44, 49..50, 68..70, 78..79, 100 and above) to
\* UNKNOWN.
C11_WeatherLabels ==
    weatherText # <<>> =>
        /\ weatherCode = 0 => weatherText[1] = "CLEAR"
        /\ weatherCode \in 1 .. 3 => weatherText[1] = "CLOUDY"
        /\ weatherCode \in 45 .. 48 => weatherText[1] = "FOGGY"
        /\ weatherCode \in 51 .. 67 => weatherText[1] = "RAINY"
        /\ weatherCode \in 71 .. 77 => weatherText[1] = "SNOWY"
        /\ weatherCode \in 80 .. 99 => weatherText[1] = "STORMY"
        /\ (\/ weatherCode < 0
            \/ weatherCode \in 4 .. 44
            \/ weatherCode \in 49 .. 50
            \/ weatherCode \in 68 .. 70
            \/ weatherCode \in 78 .. 79
            \/ weatherCode >= 100) => weatherText[1] = "UNKNOWN"

\* the first code of the last range has been mapped
C11_Witness ==
    /\ weatherCode = 80
    /\ weatherText = <<"STORMY">>

\* C12: once the widget is unmounted (or React has unmounted it after an
\* effect threw), no weather, clock or scene-advance interval is scheduled
\* and no animation frame is pending.
C12_NoDanglingTimers ==
    phase # "mounted" =>
        /\ ~weatherInterval
        /\ ~timeInterval
        /\ sceneInterval = 0
        /\ ~animationRefPending
        /\ orphanFrames = 0

\* unmounted in the middle of an animated cross-fade, in auto-play mode
C12_Witness ==
    /\ phase = "unmounted"
    /\ ~isInteractiveMode
    /\ closure.isTransitioning
    /\ closure.transitionProgress > 0
    /\ closure.shouldAnimate

\* C13: after a fetch that failed (network error, or a response without
\* the expected fields) the overlay drawn for the settled state shows no
\* weather line, whether or not an earlier fetch had succeeded.
C13_FailureBlanksOverlay ==
    (/\ phase = "mounted"
     /\ lastFetch \in {"networkError", "noCurrent", "missingFields"}
     /\ ~EffectsPending)
        => OverlayWeatherText(closure.weather) = <<>>

\* a step in which render() is called
RenderStep == EffectsRerun \/ ToggleMode \/ Frame

\* C14: while the reduced-motion preference is active no animation frame
\* is requested, and every call of render() uses the one time value held
\* by staticTimeRef, which never changes.
C14_FrozenTime ==
    /\ []((phase = "mounted" /\ prefersReducedMotion)
            => (~animationRefPending /\ orphanFrames = 0))
    /\ [][(RenderStep /\ prefersReducedMotion /\ phase' = "mounted")
            => (renderTime' = staticTime /\ staticTime' = staticTime)]_vars

\* C15: while the reduced-motion preference is active, a canvas that a
\* resize has cleared is drawn again at its new size (or the widget is
\* unmounted first).
C15_ResizeRedraws ==
    (phase = "mounted" /\ prefersReducedMotion /\ ~canvasDrawn)
        ~> (canvasDrawn \/ phase # "mounted")

\* the static frame has been drawn again on the canvas of a narrow parent
C15_Witness ==
    /\ phase = "mounted"
    /\ prefersReducedMotion
    /\ ~closure.shouldAnimate
    /\ canvasSize = <<320, 240>>
    /\ canvasDrawn
    /\ renderTime = staticTime
    /\ now > staticTime

\* C16: for every pixel, palette and position, the three values that
\* applyEnhancedDithering assigns lie in [0, 255], in the tinted and in the
\* darkened branch, and so do the bytes the image data then holds.
C16_ChannelsInRange ==
    dithered # <<>> =>
        \A c \in 1 .. 3 :
            /\ dithered[1].assigned[c] >= 0
            /\ dithered[1].assigned[c] <= 255 * DitherDen
            /\ dithered[1].stored[c] \in 0 .. 255

\* a white pixel tinted with a white palette: the sum reaches 255 exactly
C16_Witness ==
    /\ dithered # <<>>
    /\ dithered[1].branch = "tint"
    /\ pixel = <<255, 255, 255>>
    /\ dithered[1].stored = <<255, 255, 255>>

\* C20: two invocations of a glyph renderer with identical arguments issue
\* the identical sequence of draw commands.
C20_SameDraws ==
    Len(draws) = 2 => draws[1] = draws[2]

\* hi * 65536 + lo wrapped into -2^31 .. 2^31 - 1, for lo in 0..65535
WrapInt32(hi, lo) == (((hi + 32768) % 65536) - 32768) * 65536 + lo

\* 31 * h + code, wrapped
ReferenceStep(h, code) ==
    LET lo == 31 * (h % 65536) + code
    IN  WrapInt32(31 * (h \div 65536) + (lo \div 65536), lo % 65536)

\* the reference fold over the first n code units of s
RECURSIVE ReferenceFold(_, _)
ReferenceFold(s, n) ==
    IF n = 0 THEN 0
    ELSE CHOOSE r \in {ReferenceStep(h, s[n]) : h \in {ReferenceFold(s, n - 1)}} : TRUE

\* C23: hashString returns the fold h := (31 * h + code) wrapped into
\* -2^31 .. 2^31 - 1 from h = 0, for the string and for each of its
\* prefixes (the value after each step of the loop); the empty string
\* hashes to 0.
C23_PolynomialHash ==
    hashResult # <<>> =>
        /\ hashResult[1] = ReferenceFold(hashedValue, Len(hashedValue))
        /\ hashResult[1] >= MinInt32
        /\ hashResult[1] <= 2147483647
        /\ \A n \in 0 .. Len(hashedValue) :
              hashString(SubSeq(hashedValue, 1, n)) = ReferenceFold(hashedValue, n)
        /\ hashedValue = <<>> => hashResult[1] = 0

\* five code units 65535 have been hashed: the hash of the first four is
\* 2017429440, 31 times that is outside the 32-bit range, and the result
\* is negative
C23_Witness ==
    /\ hashedValue = <<65535, 65535, 65535, 65535, 65535>>
    /\ hashResult = <<-1884131265>>
    /\ hashString(SubSeq(hashedValue, 1, 4)) > 2147483647 \div 31

C25_PollsOnlyOnTicks ==
    /\ [](fetchesIssued = 1 + weatherTicks)
    /\ [](phase = "mounted" => weatherInterval)
    /\ [][fetchesIssued' # fetchesIssued
            => /\ phase = "mounted"
               /\ weatherInterval
               /\ fetchesIssued' = fetchesIssued + 1
               /\ weatherTicks' = weatherTicks + 1]_vars

\* every fetch before the last one has failed, and the last one was issued
\* by a tick that came after a failure
C25_Witness ==
    /\ phase = "mounted"
    /\ fetchesIssued = MaxFetches
    /\ weatherInFlight = 1
    /\ weather = <<>>
    /\ lastFetch = "networkError"

\* C28: once the widget is unmounted no step writes component state: a
\* fetch that settles then does not call setWeather, and no tick of an
\* interval and no frame callback runs.
C28_NoWritesAfterUnmount ==
    [][phase # "mounted"
         => /\ weather' = weather
            /\ currentTime' = currentTime
            /\ shouldAnimate' = shouldAnimate
            /\ renderTime' = renderTime
            /\ UNCHANGED playbackVars]_vars

\* C26: with a catalog of N >= 2 entities the next entity index is always
\* (current entity index + 1) mod N, in the state and in the state the
\* callbacks hold, and the two layers of a cross-fade frame are catalog
\* neighbours and never the same entity.
C26_NextIsSuccessor ==
    N >= 2 =>
        /\ nextEntityIndex = (currentEntityIndex + 1) % N
        /\ closure.nextEntityIndex = (closure.currentEntityIndex + 1) % N
        /\ Len(frame) = 2 =>
              /\ frame[2].entity = (frame[1].entity + 1) % N
              /\ frame[2].entity # frame[1].entity

\* the cross-fade from the last entity of a catalog of 3 to the first is
\* on the canvas
C26_Witness ==
    /\ N = 3
    /\ ~isInteractiveMode
    /\ Len(frame) = 2
    /\ frame[1].entity = 2
    /\ frame[2].entity = 0
    /\ frame[2].alpha > 0

\* the animation-frame callbacks that are pending
PendingFrames == (IF animationRefPending THEN 1 ELSE 0) + orphanFrames

\* C29: at any time at most one animation-frame callback is pending and at
\* most one scene-advance interval is scheduled: the cleanup of a re-run
\* has cancelled the frame of the run before when the new one is requested,
\* so no pending frame is left that animationRef.current does not name.
C29_OneRenderLoop ==
    /\ PendingFrames <= 1
    /\ orphanFrames = 0
    /\ sceneInterval <= 1

\* after a commit and a clock tick have re-run the effects, one frame is
\* pending and one interval is scheduled
C29_Witness ==
    /\ phase = "mounted"
    /\ lastSceneChange > 0
    /\ closure = StateNow
    /\ closure.currentTime = 1
    /\ closure.currentEntityIndex = 1
    /\ ~prefersReducedMotion
    /\ PendingFrames = 1
    /\ sceneInterval = 1

\* C27: in auto-play, with the interval firing and time advancing, every
\* catalog index is the current entity index again and again.
C27_EveryEntityShown ==
    \A i \in 0 .. (MaxEntities - 1) : []<>(i < N => currentEntityIndex = i)

\* C22: after every call of renderEntity the pool has
\* max(40, floor(90 * densityMultiplier)) particles for the variant of the
\* call, whatever it had before: the particles that stay keep their
\* places, what is added is new (numbered above every particle made
\* earlier) and at the end, what is removed is removed from the end; after
\* a cross-fade the pool is the one the call for the next entity left.
C22_PoolTracksTarget ==
    LET calls == lastRender.calls
    IN  /\ \A k \in 1 .. Len(calls) :
              LET before == calls[k].before
                  after == calls[k].pool
                  dm == calls[k].densityMultiplier
                  scaled == (90 * dm[1]) \div dm[2]
                  kept == IF Len(before) < Len(after) THEN Len(before)
                          ELSE Len(after)
              IN  /\ Len(after) = IF scaled > 40 THEN scaled ELSE 40
                  /\ k > 1 => before = calls[k - 1].pool
                  /\ SubSeq(after, 1, kept) = SubSeq(before, 1, kept)
                  /\ \A j \in (kept + 1) .. Len(after) :
                        /\ after[j] > after[j - 1]
                        /\ after[j] > before[Len(before)]
        /\ calls # <<>> => particles = calls[Len(calls)].pool

\* a cross-fade from the nebula to the asteroid: the first call has cut
\* the pool of the mount to 63 particles, the second has appended new ones
\* behind them up to 288
C22_Witness ==
    /\ Len(lastRender.calls) = 2
    /\ lastRender.calls[1].type = "nebula"
    /\ Len(lastRender.calls[1].before) = MountParticles
    /\ Len(lastRender.calls[1].pool) = 63
    /\ lastRender.calls[2].type = "asteroid"
    /\ Len(particles) = 288
    /\ particles[63] = 63
    /\ particles[64] = MountParticles + 1
    /\ particles[288] = MountParticles + 225

\* C30: a particle that is drawn has 0 < life <= maxLife and lies within
\* [0, width] x [0, height] of the size its call of renderEntity was given,
\* be it a particle of the mount, one made for another canvas size, or one
\* appended in the same call.
C30_DrawnParticlesAliveInBounds ==
    \A k \in 1 .. Len(lastRender.calls) :
        LET c == lastRender.calls[k]
        IN  c.probe # <<>> =>
                LET p == c.probe[1]
                IN  /\ RatLess(<<0, 1>>, p.life)
                    /\ ~RatLess(p.maxLife, p.life)
                    /\ ~RatLess(p.x, <<0, 1>>)
                    /\ ~RatLess(c.width, p.x)
                    /\ ~RatLess(p.y, <<0, 1>>)
                    /\ ~RatLess(c.height, p.y)

\* the first particle of a mount on the large canvas has been drawn on the
\* small one, where it was respawned, and drawn once more after that
C30_Witness ==
    /\ probeId = 1
    /\ renders = 2
    /\ canvasSize = <<320, 240>>
    /\ lastRender.calls[1].width = <<480, 1>>
    /\ probe # <<>>
    /\ probe[1].x = <<240, 1>>
    /\ RatLess(probe[1].life, probe[1].maxLife)
    /\ RatLess(<<0, 1>>, probe[1].life)

\* C21: for an entity whose type is none of the 13 tags of the switch,
\* renderEntity draws the star field and the particles and nothing else,
\* and the overlay and the dithering of that frame run without an error.
C21_UnknownTypeFallsThrough ==
    \A k \in 1 .. Len(lastRender.calls) :
        lastRender.calls[k].type \notin KnownTypes =>
            /\ lastRender.calls[k].drew = <<"drawStarField", "drawParticles">>
            /\ lastRender.overlay
            /\ lastRender.dithered
            /\ ~lastRender.threw

====
